---- MODULE Spec2Model ----
(***************************************************************************)
(* BlackRoad Operator: the routing decision engine.                        *)
(*   src/operator/router.py          detect_intent, select_provider,       *)
(*                                   get_alternative_providers, Router     *)
(*   src/operator/providers/base.py  BaseProvider, ProviderRegistry        *)
(*   src/operator/main.py            lifespan (startup registrations)      *)
(* Strings of the program are sequences of one-character strings, so that  *)
(* lower-casing and regular-expression search are computed, not assumed.   *)
(***************************************************************************)
EXTENDS Integers, Sequences, FiniteSets, TLC

VARIABLES
  registry,   \* ProviderRegistry._providers: name -> provider, None if absent
  call,       \* the Router.route call whose RouteDecision the caller holds
  query,      \* the argument of a direct detect_intent call
  detected,   \* its return value, Pending before the call has run
  status,     \* BaseProvider._status of the provider registered under a name
  latency_samples, \* BaseProvider._latency_samples of that provider
  measured,   \* how many execute_with_metrics calls have measured a latency
  exec,       \* task -> where its execute_with_metrics call stands
  hc,         \* the running ProviderRegistry.health_check_all call
  task,       \* task -> where its route_request call stands
  audit_log,  \* the AuditEntry of every audit_logger.log call, in call order
  registered, \* the register calls traced by SpecRegistry, in call order
  buffer,     \* AuditLogger._buffer
  file,       \* the lines of the audit log file
  lock,       \* AuditLogger._lock: its holder and the callers waiting for it
  logcall,    \* caller -> where its AuditLogger.log or close call stands
  flush_failures \* how many _flush calls have ended in their except clause

vars == <<registry, call, query, detected, status, latency_samples, measured,
          exec, hc, task, audit_log, registered, buffer, file, lock, logcall,
          flush_failures>>

\* the state of the AuditLogger
auditVars == <<buffer, file, lock, logcall, flush_failures>>

\* the state of the providers' metrics, of the calls in flight, of the audit
providerVars == <<status, latency_samples, measured>>
callVars == <<exec, hc, task, audit_log>>

None == "None"
Pending == "pending"

(***************************************************************************)
(* models/requests.py: IntentType, in the order the enumeration lists its  *)
(* members (the order `for intent in IntentType` iterates in).             *)
(***************************************************************************)
PHYSICS == "physics"
LANGUAGE == "language"
DATA == "data"
INFERENCE == "inference"
UNKNOWN == "unknown"

IntentType == <<PHYSICS, LANGUAGE, DATA, INFERENCE, UNKNOWN>>

Range(s) == {s[i] : i \in 1..Len(s)}

(***************************************************************************)
(* router.py: RouteStrategy.                                               *)
(***************************************************************************)
FASTEST == "fastest"
CHEAPEST == "cheapest"
BEST == "best"
AUTO == "auto"

RouteStrategy == {FASTEST, CHEAPEST, BEST, AUTO}

(***************************************************************************)
(* The fragment of Python's `re` syntax the pattern table uses: literal    *)
(* text, `.*`, `.?` and a non-capturing alternation of literals. A pattern *)
(* is the sequence of its pieces.                                          *)
(***************************************************************************)
Lit(s) == [t |-> "lit", alts |-> <<s>>]
Alt(a) == [t |-> "alt", alts |-> a]
DotStar == [t |-> "dotstar", alts |-> <<>>]
DotOpt == [t |-> "dotopt", alts |-> <<>>]

\* `.` matches any character except a newline (no DOTALL flag is passed).
Dot(c) == c # "\n"

\* text[i..] starts with the literal s
StartsWith(text, i, s) ==
  /\ i + Len(s) - 1 <= Len(text)
  /\ \A k \in 1..Len(s) : text[i + k - 1] = s[k]

RECURSIVE MatchFrom(_, _, _, _)
\* pieces k.. of pattern p match a prefix of text[i..]
MatchFrom(p, k, text, i) ==
  IF k > Len(p) THEN TRUE
  ELSE LET pc == p[k] IN
    CASE pc.t \in {"lit", "alt"} ->
           \E a \in 1..Len(pc.alts) :
             /\ StartsWith(text, i, pc.alts[a])
             /\ MatchFrom(p, k + 1, text, i + Len(pc.alts[a]))
      [] pc.t = "dotstar" ->
           \E j \in i..(Len(text) + 1) :
             /\ \A m \in i..(j - 1) : Dot(text[m])
             /\ MatchFrom(p, k + 1, text, j)
      [] pc.t = "dotopt" ->
           \/ MatchFrom(p, k + 1, text, i)
           \/ /\ i <= Len(text)
              /\ Dot(text[i])
              /\ MatchFrom(p, k + 1, text, i + 1)

\* re.search(pattern, text): the pattern matches starting somewhere in text
re_search(p, text) == \E i \in 1..(Len(text) + 1) : MatchFrom(p, 1, text, i)

\* str.lower() on the characters the queries are written in
UpperCase == <<"A", "B", "C", "D", "E", "F", "G", "H", "I", "J", "K", "L", "M",
               "N", "O", "P", "Q", "R", "S", "T", "U", "V", "W", "X", "Y", "Z">>
LowerCase == <<"a", "b", "c", "d", "e", "f", "g", "h", "i", "j", "k", "l", "m",
               "n", "o", "p", "q", "r", "s", "t", "u", "v", "w", "x", "y", "z">>

lower(s) ==
  [i \in 1..Len(s) |->
     IF \E u \in 1..26 : UpperCase[u] = s[i]
     THEN LowerCase[CHOOSE u \in 1..26 : UpperCase[u] = s[i]]
     ELSE s[i]]

(***************************************************************************)
(* router.py: INTENT_PATTERNS, a dict; its items in insertion order.       *)
(***************************************************************************)
INTENT_PATTERNS ==
  <<
    [intent |-> PHYSICS, patterns |-> <<
        <<Lit(<<"p", "h", "y", "s", "i", "c">>)>>,   \* r"physic"
        <<Lit(<<"q", "u", "a", "n", "t", "u", "m">>)>>,   \* r"quantum"
        <<Lit(<<"e", "n", "e", "r", "g", "y">>)>>,   \* r"energy"
        <<Lit(<<"f", "o", "r", "c", "e">>)>>,   \* r"force"
        <<Lit(<<"m", "a", "s", "s">>)>>,   \* r"mass"
        <<Lit(<<"v", "e", "l", "o", "c", "i", "t", "y">>)>>,   \* r"velocity"
        <<Lit(<<"a", "c", "c", "e", "l", "e", "r", "a", "t", "i", "o", "n">>)>>,   \* r"acceleration"
        <<Lit(<<"w", "a", "v", "e", "l", "e", "n", "g", "t", "h">>)>>,   \* r"wavelength"
        <<Lit(<<"f", "r", "e", "q", "u", "e", "n", "c", "y">>)>>,   \* r"frequency"
        <<Lit(<<"r", "e", "l", "a", "t", "i", "v", "i", "t", "y">>)>>,   \* r"relativity"
        <<Lit(<<"e", "l", "e", "c", "t", "r", "o", "n">>)>>,   \* r"electron"
        <<Lit(<<"p", "r", "o", "t", "o", "n">>)>>,   \* r"proton"
        <<Lit(<<"n", "e", "u", "t", "r", "o", "n">>)>>,   \* r"neutron"
        <<Lit(<<"a", "t", "o", "m">>)>>,   \* r"atom"
        <<Lit(<<"m", "o", "l", "e", "c", "u", "l", "e">>)>>,   \* r"molecule"
        <<Lit(<<"t", "h", "e", "r", "m", "o", "d", "y", "n", "a", "m", "i", "c">>)>>,   \* r"thermodynamic"
        <<Lit(<<"e", "l", "e", "c", "t", "r", "o", "m", "a", "g", "n", "e", "t", "i", "c">>)>>,   \* r"electromagnetic"
        <<Lit(<<"g", "r", "a", "v", "i", "t", "y">>)>>,   \* r"gravity"
        <<Lit(<<"o", "r", "b", "i", "t", "a", "l">>)>>,   \* r"orbital"
        <<Lit(<<"b", "i", "n", "d", "i", "n", "g", " ", "e", "n", "e", "r", "g", "y">>)>>,   \* r"binding energy"
        <<Lit(<<"k", "i", "n", "e", "t", "i", "c">>)>>,   \* r"kinetic"
        <<Lit(<<"p", "o", "t", "e", "n", "t", "i", "a", "l">>)>>,   \* r"potential"
        <<Lit(<<"l", "o", "r", "e", "n", "t", "z">>)>>,   \* r"lorentz"
        <<Lit(<<"c", "o", "u", "l", "o", "m", "b">>)>>,   \* r"coulomb"
        <<Lit(<<"p", "l", "a", "n", "c", "k">>)>>,   \* r"planck"
        <<Lit(<<"h", "e", "i", "s", "e", "n", "b", "e", "r", "g">>)>>,   \* r"heisenberg"
        <<Lit(<<"s", "c", "h", "r", "o", "d", "i", "n", "g", "e", "r">>)>>,   \* r"schrodinger"
        <<Lit(<<"c", "a", "l", "c", "u", "l", "a", "t", "e">>), DotStar, Alt(<<<<"e", "V">>, <<"j", "o", "u", "l", "e">>, <<"n", "e", "w", "t", "o", "n">>, <<"m", "e", "t", "e", "r">>, <<"k", "e", "l", "v", "i", "n">>>>)>>   \* r"calculate.*(?:eV|joule|newton|meter|kelvin)"
    >>],
    [intent |-> DATA, patterns |-> <<
        <<Lit(<<"c", "u", "s", "t", "o", "m", "e", "r">>)>>,   \* r"customer"
        <<Lit(<<"c", "o", "n", "t", "a", "c", "t">>)>>,   \* r"contact"
        <<Lit(<<"a", "c", "c", "o", "u", "n", "t">>)>>,   \* r"account"
        <<Lit(<<"l", "e", "a", "d">>)>>,   \* r"lead"
        <<Lit(<<"o", "p", "p", "o", "r", "t", "u", "n", "i", "t", "y">>)>>,   \* r"opportunity"
        <<Lit(<<"s", "a", "l", "e", "s", "f", "o", "r", "c", "e">>)>>,   \* r"salesforce"
        <<Lit(<<"c", "r", "m">>)>>,   \* r"crm"
        <<Lit(<<"l", "o", "o", "k", "u", "p">>)>>,   \* r"lookup"
        <<Lit(<<"f", "i", "n", "d">>), DotStar, Alt(<<<<"c", "u", "s", "t", "o", "m", "e", "r">>, <<"c", "o", "n", "t", "a", "c", "t">>, <<"a", "c", "c", "o", "u", "n", "t">>>>)>>,   \* r"find.*(?:customer|contact|account)"
        <<Lit(<<"g", "e", "t">>), DotStar, Alt(<<<<"c", "u", "s", "t", "o", "m", "e", "r">>, <<"c", "o", "n", "t", "a", "c", "t">>, <<"a", "c", "c", "o", "u", "n", "t">>>>)>>,   \* r"get.*(?:customer|contact|account)"
        <<Lit(<<"c", "r", "e", "a", "t", "e">>), DotStar, Alt(<<<<"c", "u", "s", "t", "o", "m", "e", "r">>, <<"c", "o", "n", "t", "a", "c", "t">>, <<"a", "c", "c", "o", "u", "n", "t">>>>)>>,   \* r"create.*(?:customer|contact|account)"
        <<Lit(<<"u", "p", "d", "a", "t", "e">>), DotStar, Alt(<<<<"c", "u", "s", "t", "o", "m", "e", "r">>, <<"c", "o", "n", "t", "a", "c", "t">>, <<"a", "c", "c", "o", "u", "n", "t">>>>)>>,   \* r"update.*(?:customer|contact|account)"
        <<Lit(<<"s", "o", "q", "l">>)>>   \* r"soql"
    >>],
    [intent |-> INFERENCE, patterns |-> <<
        <<Lit(<<"c", "l", "a", "s", "s", "i", "f", "y">>)>>,   \* r"classify"
        <<Lit(<<"d", "e", "t", "e", "c", "t">>)>>,   \* r"detect"
        <<Lit(<<"r", "e", "c", "o", "g", "n", "i", "z", "e">>)>>,   \* r"recognize"
        <<Lit(<<"v", "i", "s", "i", "o", "n">>)>>,   \* r"vision"
        <<Lit(<<"i", "m", "a", "g", "e">>)>>,   \* r"image"
        <<Lit(<<"v", "i", "d", "e", "o">>)>>,   \* r"video"
        <<Lit(<<"r", "e", "a", "l">>), DotOpt, Lit(<<"t", "i", "m", "e">>)>>,   \* r"real.?time"
        <<Lit(<<"e", "d", "g", "e">>)>>,   \* r"edge"
        <<Lit(<<"f", "a", "s", "t">>), DotStar, Lit(<<"i", "n", "f", "e", "r", "e", "n", "c", "e">>)>>,   \* r"fast.*inference"
        <<Lit(<<"l", "o", "c", "a", "l">>), DotStar, Lit(<<"m", "o", "d", "e", "l">>)>>   \* r"local.*model"
    >>],
    [intent |-> LANGUAGE, patterns |-> <<
        <<Lit(<<"e", "x", "p", "l", "a", "i", "n">>)>>,   \* r"explain"
        <<Lit(<<"w", "r", "i", "t", "e">>)>>,   \* r"write"
        <<Lit(<<"s", "u", "m", "m", "a", "r", "i", "z", "e">>)>>,   \* r"summarize"
        <<Lit(<<"t", "r", "a", "n", "s", "l", "a", "t", "e">>)>>,   \* r"translate"
        <<Lit(<<"a", "n", "a", "l", "y", "z", "e">>)>>,   \* r"analyze"
        <<Lit(<<"c", "o", "d", "e">>)>>,   \* r"code"
        <<Lit(<<"h", "e", "l", "p">>), DotStar, Lit(<<"w", "i", "t", "h">>)>>,   \* r"help.*with"
        <<Lit(<<"w", "h", "a", "t", " ", "i", "s">>)>>,   \* r"what is"
        <<Lit(<<"h", "o", "w", " ", "d", "o">>)>>,   \* r"how do"
        <<Lit(<<"w", "h", "y">>)>>,   \* r"why"
        <<Lit(<<"t", "e", "l", "l", " ", "m", "e">>)>>,   \* r"tell me"
        <<Lit(<<"d", "e", "s", "c", "r", "i", "b", "e">>)>>   \* r"describe"
    >>]
  >>

(***************************************************************************)
(* router.py: INTENT_PROVIDER_MAP, provider priority for each intent.      *)
(***************************************************************************)
\* a map whose PHYSICS list puts the API providers before the compute one
INTENT_PROVIDER_MAP_api_first ==
  [physics   |-> <<"claude", "gpt", "physics">>,
   data      |-> <<"salesforce", "claude">>,
   inference |-> <<"hailo", "claude">>,
   language  |-> <<"claude", "gpt">>,
   unknown   |-> <<"claude", "gpt">>]

INTENT_PROVIDER_MAP ==
  [physics   |-> <<"physics", "claude", "gpt">>,
   data      |-> <<"salesforce", "claude">>,
   inference |-> <<"hailo", "claude">>,
   language  |-> <<"claude", "gpt">>,
   unknown   |-> <<"claude", "gpt">>]

(***************************************************************************)
(* router.py: detect_intent.                                               *)
(***************************************************************************)
\* intent_scores after the scoring loop: one point per pattern of the
\* intent's table entry that re.search finds in the lower-cased query
intent_scores(query_lower) ==
  [intent \in Range(IntentType) |->
     Cardinality(
       {pn \in UNION {{<<e, n>> : n \in 1..Len(INTENT_PATTERNS[e].patterns)} :
                        e \in {x \in 1..Len(INTENT_PATTERNS) :
                                 INTENT_PATTERNS[x].intent = intent}} :
          re_search(INTENT_PATTERNS[pn[1]].patterns[pn[2]], query_lower)})]

\* max(intent_scores.values())
max_score(scores) ==
  CHOOSE v \in {scores[i] : i \in DOMAIN scores} :
    \A i \in DOMAIN scores : scores[i] <= v

\* first_with_max without the `if max_score == 0` return: the loop then
\* returns the first key, all scores being equal to the maximum 0
first_with_max_no_zero_check(scores, keys) ==
  IF \E k \in 1..Len(keys) : scores[keys[k]] = max_score(scores)
  THEN keys[CHOOSE k \in 1..Len(keys) :
              /\ scores[keys[k]] = max_score(scores)
              /\ \A j \in 1..(k - 1) : scores[keys[j]] # max_score(scores)]
  ELSE UNKNOWN

\* the first key, in the order `keys` iterates in, whose score is the maximum
first_with_max(scores, keys) ==
  IF max_score(scores) = 0 THEN UNKNOWN
  ELSE IF \E k \in 1..Len(keys) : scores[keys[k]] = max_score(scores)
       THEN keys[CHOOSE k \in 1..Len(keys) :
                   /\ scores[keys[k]] = max_score(scores)
                   /\ \A j \in 1..(k - 1) : scores[keys[j]] # max_score(scores)]
       ELSE UNKNOWN

\* detect_intent matching against the query as given, not lower-cased
detect_intent_no_lower(q) == first_with_max(intent_scores(q), IntentType)

\* detect_intent with intent_scores keyed in the order of INTENT_PATTERNS
detect_intent_table_order(q) ==
  first_with_max(intent_scores(lower(q)),
                 [e \in 1..Len(INTENT_PATTERNS) |-> INTENT_PATTERNS[e].intent])

detect_intent(q) == first_with_max(intent_scores(lower(q)), IntentType)

(***************************************************************************)
(* providers/: a provider is what routing reads of it, its class           *)
(* attributes name and provider_type.                                      *)
(***************************************************************************)
ProviderNames == {"claude", "gpt", "physics", "salesforce", "hailo"}
ProviderTypes == {"llm", "compute", "data", "edge"}

ClaudeProvider == [name |-> "claude", provider_type |-> "llm"]
OpenAIProvider == [name |-> "gpt", provider_type |-> "llm"]
PhysicsProvider == [name |-> "physics", provider_type |-> "compute"]
SalesforceProvider == [name |-> "salesforce", provider_type |-> "data"]
HailoProvider == [name |-> "hailo", provider_type |-> "edge"]

ShippedProviders ==
  {ClaudeProvider, OpenAIProvider, PhysicsProvider, SalesforceProvider, HailoProvider}

\* every BaseProvider that ProviderRegistry.register accepts: a subclass sets
\* name and provider_type freely
Providers == [name : ProviderNames, provider_type : ProviderTypes]

\* Python's None where a provider is expected (Optional[BaseProvider])
NoProvider == [name |-> None, provider_type |-> None]

(***************************************************************************)
(* providers/base.py: ProviderRegistry.                                    *)
(***************************************************************************)
\* self._providers[provider.name] = provider
\* a register that leaves an existing entry alone (dict.setdefault)
register_keep_first(providers, provider) ==
  IF provider.name \in DOMAIN providers
    THEN providers
    ELSE (provider.name :> provider) @@ providers

register(providers, provider) ==
  [n \in (DOMAIN providers) \cup {provider.name} |->
     IF n = provider.name THEN provider ELSE providers[n]]

\* self._providers.get(name)
get(name) == IF name \in DOMAIN registry THEN registry[name] ELSE NoProvider

\* the truth value Python gives an Optional[BaseProvider] / Optional[str]
Truthy(provider) == provider # NoProvider
TruthyStr(s) == s # None /\ s # ""

(***************************************************************************)
(* router.py: select_provider.                                             *)
(***************************************************************************)
\* a sort that is not stable: names of equal key come out in reverse order
sorted_ties_reversed(names, keys) ==
  LET rank(i) == Cardinality({j \in 1..Len(names) :
                                \/ keys[j] < keys[i]
                                \/ keys[j] = keys[i] /\ j > i}) + 1
  IN [r \in 1..Len(names) |-> names[CHOOSE i \in 1..Len(names) : rank(i) = r]]

\* sorted(names, key=...): the stable ascending sort of names by keys, where
\* keys[i] is the key of names[i]
sorted(names, keys) ==
  LET rank(i) == Cardinality({j \in 1..Len(names) :
                                \/ keys[j] < keys[i]
                                \/ keys[j] = keys[i] /\ j < i}) + 1
  IN [r \in 1..Len(names) |-> names[CHOOSE i \in 1..Len(names) : rank(i) = r]]

\* lambda n: 0 if registry.get(n) and registry.get(n).provider_type == t else 1
type_key(n, t) == IF Truthy(get(n)) /\ get(n).provider_type = t THEN 0 ELSE 1

\* apply_strategy with the CHEAPEST branch keyed on "edge" like the FASTEST one
apply_strategy_cheapest_by_edge(provider_names, strategy) ==
  IF strategy \in {FASTEST, CHEAPEST}
  THEN sorted(provider_names,
              [i \in 1..Len(provider_names) |-> type_key(provider_names[i], "edge")])
  ELSE provider_names

\* a FASTEST branch keyed on observed latency: providers with samples first
apply_strategy_fastest_by_latency(provider_names, strategy) ==
  IF strategy = FASTEST
  THEN sorted(provider_names,
              [i \in 1..Len(provider_names) |->
                 IF latency_samples[provider_names[i]] # <<>> THEN 0 ELSE 1])
  ELSE IF strategy = CHEAPEST
  THEN sorted(provider_names,
              [i \in 1..Len(provider_names) |-> type_key(provider_names[i], "compute")])
  ELSE provider_names

\* provider_names after "Apply strategy modifications"
apply_strategy(provider_names, strategy) ==
  IF strategy = FASTEST
  THEN sorted(provider_names,
              [i \in 1..Len(provider_names) |-> type_key(provider_names[i], "edge")])
  ELSE IF strategy = CHEAPEST
  THEN sorted(provider_names,
              [i \in 1..Len(provider_names) |-> type_key(provider_names[i], "compute")])
  ELSE provider_names

\* a locality test that accepts edge providers only
is_local_edge_only(n) == Truthy(get(n)) /\ get(n).provider_type = "edge"

\* the comprehension of "Filter for local only if required"
is_local(n) == Truthy(get(n)) /\ get(n).provider_type \in {"compute", "edge"}

\* filter_local with the require_local filter left out
filter_local_ignored(provider_names, require_local) == provider_names

filter_local(provider_names, require_local) ==
  IF require_local THEN SelectSeq(provider_names, is_local) ELSE provider_names

\* the walk skipping every provider whose last health check left it OFFLINE
first_available_online(provider_names) ==
  LET up(n) == Truthy(get(n)) /\ status[n] # "offline"
  IN  IF \E i \in 1..Len(provider_names) : up(provider_names[i])
      THEN get(provider_names[CHOOSE i \in 1..Len(provider_names) :
                                /\ up(provider_names[i])
                                /\ \A j \in 1..(i - 1) : ~up(provider_names[j])])
      ELSE NoProvider

\* the loop keeping the last registered name instead of returning the first
last_available(provider_names) ==
  IF \E i \in 1..Len(provider_names) : Truthy(get(provider_names[i]))
  THEN get(provider_names[CHOOSE i \in 1..Len(provider_names) :
                            /\ Truthy(get(provider_names[i]))
                            /\ \A j \in (i + 1)..Len(provider_names) :
                                 ~Truthy(get(provider_names[j]))])
  ELSE NoProvider

\* "Return first available provider", None when the loop runs out
first_available(provider_names) ==
  IF \E i \in 1..Len(provider_names) : Truthy(get(provider_names[i]))
  THEN get(provider_names[CHOOSE i \in 1..Len(provider_names) :
                            /\ Truthy(get(provider_names[i]))
                            /\ \A j \in 1..(i - 1) : ~Truthy(get(provider_names[j]))])
  ELSE NoProvider

\* the preferred lookup returned without the `if provider` test
returns_preferred_unchecked(preferred) == TruthyStr(preferred)

\* the preferred provider is returned before the priority list is looked at
returns_preferred(preferred) == TruthyStr(preferred) /\ Truthy(get(preferred))

\* INTENT_PROVIDER_MAP.get(intent, INTENT_PROVIDER_MAP[IntentType.UNKNOWN])
priority_list(intent) ==
  IF intent \in DOMAIN INTENT_PROVIDER_MAP
  THEN INTENT_PROVIDER_MAP[intent] ELSE INTENT_PROVIDER_MAP[UNKNOWN]

select_provider(intent, strategy, preferred, require_local) ==
  IF returns_preferred(preferred) THEN get(preferred)
  ELSE first_available(
         filter_local(apply_strategy(priority_list(intent), strategy), require_local))

(***************************************************************************)
(* router.py: get_alternative_providers.                                   *)
(***************************************************************************)
\* get_alternative_providers without the `n != selected` test
get_alternative_providers_with_selected(selected, intent) ==
  LET provider_names == IF intent \in DOMAIN INTENT_PROVIDER_MAP
                        THEN INTENT_PROVIDER_MAP[intent] ELSE <<>>
      keep(n) == Truthy(get(n))
  IN SelectSeq(provider_names, keep)

\* get_alternative_providers without the `registry.get(n)` test
get_alternative_providers_unregistered(selected, intent) ==
  LET provider_names == IF intent \in DOMAIN INTENT_PROVIDER_MAP
                        THEN INTENT_PROVIDER_MAP[intent] ELSE <<>>
      keep(n) == n # selected
  IN SelectSeq(provider_names, keep)

get_alternative_providers(selected, intent) ==
  LET provider_names == IF intent \in DOMAIN INTENT_PROVIDER_MAP
                        THEN INTENT_PROVIDER_MAP[intent] ELSE <<>>
      keep(n) == n # selected /\ Truthy(get(n))
  IN SelectSeq(provider_names, keep)

(***************************************************************************)
(* router.py: Router.route. The result is the returned tuple (provider,    *)
(* intent, alternatives), or the ValueError raised; provider_names is the  *)
(* candidate list select_provider walked, when it got that far.            *)
(***************************************************************************)
\* the queries Router.route is called with: one of each intent, one in
\* upper case, one that matches nothing and the empty one
RouteQueries ==
  {<<"e", "n", "e", "r", "g", "y">>,
   <<"E", "x", "p", "l", "a", "i", "n">>,
   <<"c", "o", "n", "t", "a", "c", "t">>,
   <<"i", "m", "a", "g", "e">>,
   <<"h", "e", "l", "l", "o">>,
   <<>>}

default_strategy == AUTO

\* detect_intent(query) for the queries route is called with, computed once
detected_intent == [q \in RouteQueries |-> detect_intent(q)]

ranked_names(intent, strategy) == apply_strategy(priority_list(intent), strategy)

route(q, strategy, preferred_provider, require_local) ==
  LET intent == detected_intent[q]
      strat == IF strategy = None THEN default_strategy ELSE strategy
      provider == select_provider(intent, strat, preferred_provider, require_local)
      walked == ~returns_preferred(preferred_provider)
  IN [op |-> "route",
      query |-> q,
      strategy |-> strategy,
      preferred_provider |-> preferred_provider,
      require_local |-> require_local,
      intent |-> intent,
      walked |-> walked,
      ranked |-> IF walked THEN ranked_names(intent, strat) ELSE <<>>,
      provider_names |-> IF walked
                         THEN filter_local(ranked_names(intent, strat), require_local)
                         ELSE <<>>,
      raised |-> IF Truthy(provider) THEN None ELSE "ValueError",
      provider |-> provider,
      alternatives |-> IF Truthy(provider)
                       THEN get_alternative_providers(provider.name, intent)
                       ELSE <<>>]

NoCall == [op |-> "none"]

(***************************************************************************)
(* Inputs.                                                                 *)
(***************************************************************************)
\* at most this many registered providers are not of the five shipped classes
MaxCustom == 1
\* at most this many words in a query given to detect_intent directly
MaxWords == 2

Vocabulary ==
  {<<"e", "n", "e", "r", "g", "y">>,
   <<"b", "i", "n", "d", "i", "n", "g">>,
   <<"s", "a", "l", "e", "s", "f", "o", "r", "c", "e">>,
   <<"E", "x", "p", "l", "a", "i", "n">>,
   <<"i", "m", "a", "g", "e">>,
   <<"c", "o", "n", "t", "a", "c", "t">>,
   <<"f", "i", "n", "d">>,
   <<"c", "o", "d", "e">>,
   <<"r", "e", "a", "l">>,
   <<"t", "i", "m", "e">>,
   <<"\n">>}

RECURSIVE Join(_)
\* the words of ws, single spaces between them
Join(ws) ==
  IF Len(ws) = 0 THEN <<>>
  ELSE IF Len(ws) = 1 THEN ws[1]
  ELSE ws[1] \o <<" ">> \o Join(Tail(ws))

Queries == {Join(ws) : ws \in UNION {[1..n -> Vocabulary] : n \in 0..MaxWords}}

Strategies == RouteStrategy \cup {None}
Preferred == ProviderNames \cup {None, ""}

Custom(providers) == {n \in DOMAIN providers : providers[n] \notin ShippedProviders}

(***************************************************************************)
(* ProviderStatus (models/responses.py) and what a provider and the calls  *)
(* look like before anything has run.                                      *)
(***************************************************************************)
ONLINE == "online"
OFFLINE == "offline"
DEGRADED == "degraded"
STATUS_UNKNOWN == "unknown"
ProviderStatus == {ONLINE, OFFLINE, DEGRADED, STATUS_UNKNOWN}

Tasks == {"t1", "t2"}
Idle == [pc |-> "idle"]

\* BaseProvider.__init__: status UNKNOWN, no latency sample
InitProviders ==
  /\ status = [n \in ProviderNames |-> STATUS_UNKNOWN]
  /\ latency_samples = [n \in ProviderNames |-> <<>>]
  /\ measured = 0

Callers == Tasks \cup {"lifespan"}
Unlocked == [holder |-> None, waiters |-> <<>>]

\* AuditLogger.__init__
InitAudit ==
  /\ buffer = <<>>
  /\ file = <<>>
  /\ lock = Unlocked
  /\ logcall = [c \in Callers |-> Idle]
  /\ flush_failures = 0

\* no call in flight; AuditLogger has logged nothing
InitCalls ==
  /\ exec = [t \in Tasks |-> Idle]
  /\ hc = Idle
  /\ task = [t \in Tasks |-> Idle]
  /\ audit_log = <<>>
  /\ registered = <<>>
  /\ InitAudit

(***************************************************************************)
(* The routing specification: the registry is built by register calls and  *)
(* by lifespan's startup; a caller routes a query, holds the decision and  *)
(* drops it when its request is done.                                      *)
(***************************************************************************)
Init ==
  /\ registry = <<>>
  /\ call = NoCall
  /\ query = <<>>
  /\ detected = Pending
  /\ InitProviders
  /\ InitCalls

\* ProviderRegistry.register(provider)
Register(provider) ==
  /\ call = NoCall
  /\ Cardinality(Custom(register(registry, provider))) <= MaxCustom
  /\ registry' = register(registry, provider)
  /\ status' = [status EXCEPT ![provider.name] = STATUS_UNKNOWN]
  /\ latency_samples' = [latency_samples EXCEPT ![provider.name] = <<>>]
  /\ UNCHANGED <<registered, auditVars, call, query, detected, measured, callVars>>

\* main.py lifespan, startup half
Lifespan ==
  /\ call = NoCall
  /\ registry' = register(register(register(register(register(registry,
                   ClaudeProvider), OpenAIProvider), PhysicsProvider),
                   SalesforceProvider), HailoProvider)
  /\ status' = [n \in ProviderNames |-> STATUS_UNKNOWN]
  /\ latency_samples' = [n \in ProviderNames |-> <<>>]
  /\ UNCHANGED <<registered, auditVars, call, query, detected, measured, callVars>>

\* Router.route(query, strategy, preferred_provider, require_local)
Route(q, strategy, preferred_provider, require_local) ==
  /\ call = NoCall
  /\ call' = route(q, strategy, preferred_provider, require_local)
  /\ UNCHANGED <<registered, auditVars, registry, query, detected, providerVars, callVars>>

\* the caller is done with its RouteDecision
Discard ==
  /\ call # NoCall
  /\ call' = NoCall
  /\ UNCHANGED <<registered, auditVars, registry, query, detected, providerVars, callVars>>

Next ==
  \/ \E provider \in Providers : Register(provider)
  \/ Lifespan
  \/ \E q \in RouteQueries, strategy \in Strategies,
        preferred_provider \in Preferred, require_local \in BOOLEAN :
       Route(q, strategy, preferred_provider, require_local)
  \/ Discard

Spec == Init /\ [][Next]_vars

(***************************************************************************)
(* The classifier on its own: detect_intent applied to a query.            *)
(***************************************************************************)
InitIntent ==
  /\ registry = <<>>
  /\ call = NoCall
  /\ query \in Queries
  /\ detected = Pending
  /\ InitProviders
  /\ InitCalls

DetectIntent ==
  /\ detected = Pending
  /\ detected' = detect_intent(query)
  /\ UNCHANGED <<registered, auditVars, registry, call, query, providerVars, callVars>>

NextIntent == DetectIntent

SpecIntent == InitIntent /\ [][NextIntent]_vars

(***************************************************************************)
(* Vocabulary of the properties.                                           *)
(***************************************************************************)
Routed == call.op = "route"
Returned == Routed /\ call.raised = None
Raised == Routed /\ call.raised = "ValueError"

Registered(n) == n \in DOMAIN registry
IsLocalType(t) == t \in {"compute", "edge"}
RegisteredOfType(n, t) == Registered(n) /\ registry[n].provider_type = t
RegisteredLocal(n) == Registered(n) /\ IsLocalType(registry[n].provider_type)

\* the strategy select_provider was given
Effective(strategy) == IF strategy = None THEN AUTO ELSE strategy
\* a registered preferred provider was supplied
PreferredHit == call.preferred_provider \notin {None, ""} /\ Registered(call.preferred_provider)

StaticList == INTENT_PROVIDER_MAP[call.intent]
IndexIn(L, n) == CHOOSE i \in 1..Len(L) : L[i] = n
NoDuplicates(L) == \A i, j \in 1..Len(L) : L[i] = L[j] => i = j
\* A lists exactly the members of the set S, in the order L lists them
ListsInOrderOf(A, S, L) ==
  /\ Range(A) = S
  /\ NoDuplicates(A)
  /\ \A i, j \in 1..Len(A) : i < j => IndexIn(L, A[i]) < IndexIn(L, A[j])

StartupRegistry ==
  /\ DOMAIN registry = ProviderNames
  /\ \A n \in ProviderNames : registry[n] \in ShippedProviders

(***************************************************************************)
(* C1. Every Router.route call with require_local = true that returns a    *)
(* provider returns one of type compute or edge, whether or not a          *)
(* preferred provider is named; and when no compute or edge provider is    *)
(* registered for the intent, the call raises the no-provider error.       *)
(***************************************************************************)
C1_RequireLocalReturnsLocal ==
  (Routed /\ call.require_local) =>
    /\ Returned => IsLocalType(call.provider.provider_type)
    /\ (~\E n \in Range(StaticList) : RegisteredLocal(n)) => Raised

(***************************************************************************)
(* C2 as claimed. The alternatives are the priority list after strategy    *)
(* reordering and after the require_local filter, minus the chosen name,   *)
(* restricted to registered names.                                         *)
(***************************************************************************)
C2_AlternativesOfRankedList ==
  Returned =>
    LET ranked == filter_local(ranked_names(call.intent, Effective(call.strategy)),
                               call.require_local)
    IN ListsInOrderOf(call.alternatives,
                      {n \in Range(ranked) : n # call.provider.name /\ Registered(n)},
                      ranked)

(***************************************************************************)
(* C2 amended. The alternatives are the intent's static priority list,     *)
(* neither reordered by the strategy nor filtered by require_local, minus  *)
(* the chosen provider's name, restricted to registered names.             *)
(***************************************************************************)
C2_AlternativesOfStaticList ==
  Returned =>
    ListsInOrderOf(call.alternatives,
                   {n \in Range(StaticList) : n # call.provider.name /\ Registered(n)},
                   StaticList)

\* a local-only request answered with an alternative that is not local
C2_Witness ==
  /\ Returned /\ call.require_local /\ ~PreferredHit
  /\ \E i \in 1..Len(call.alternatives) : ~RegisteredLocal(call.alternatives[i])

(***************************************************************************)
(* C3 as claimed. A registered preferred provider is the one returned, for *)
(* every query, intent and strategy, and the alternatives are the intent's *)
(* priority list minus that name; an unregistered preferred name changes   *)
(* nothing: the call ends as the same call without a preference does.      *)
(***************************************************************************)
SameOutcome(a, b) ==
  /\ a.raised = b.raised
  /\ a.provider = b.provider
  /\ a.intent = b.intent
  /\ a.alternatives = b.alternatives

WithoutPreference ==
  route(call.query, call.strategy, None, call.require_local)

C3_PreferredListMinusName ==
  Routed =>
    /\ PreferredHit =>
         /\ Returned
         /\ call.provider = registry[call.preferred_provider]
         /\ ListsInOrderOf(call.alternatives,
                           {n \in Range(StaticList) : n # call.preferred_provider},
                           StaticList)
    /\ ~PreferredHit => SameOutcome(call, WithoutPreference)

(***************************************************************************)
(* C3 amended. A registered preferred provider is the one returned, for    *)
(* every query, intent and strategy, and the alternatives are the          *)
(* registered names of the intent's priority list minus that name; an      *)
(* unregistered preferred name changes nothing.                            *)
(***************************************************************************)
C3_PreferredReturned ==
  Routed =>
    /\ PreferredHit =>
         /\ Returned
         /\ call.provider = registry[call.preferred_provider]
         /\ ListsInOrderOf(call.alternatives,
                           {n \in Range(StaticList) :
                              n # call.preferred_provider /\ Registered(n)},
                           StaticList)
    /\ ~PreferredHit => SameOutcome(call, WithoutPreference)

\* the preferred provider was returned although the priority list, walked
\* without the preference, gives another one
C3_Witness ==
  /\ Routed /\ PreferredHit
  /\ call.provider = registry[call.preferred_provider]
  /\ WithoutPreference.raised = None
  /\ WithoutPreference.provider # call.provider
  /\ call.strategy \in {FASTEST, CHEAPEST}

(***************************************************************************)
(* C4. Without a preferred provider, with require_local = false and        *)
(* strategy AUTO or BEST, the provider returned is the one registered      *)
(* under the first name of INTENT_PROVIDER_MAP[intent] that is registered: *)
(* no registered name earlier in the list is skipped.                      *)
(***************************************************************************)
C4_Case ==
  /\ Routed
  /\ call.preferred_provider = None
  /\ ~call.require_local
  /\ Effective(call.strategy) \in {AUTO, BEST}

C4_FirstRegisteredOfStaticList ==
  C4_Case =>
    \A i \in 1..Len(StaticList) :
      (Registered(StaticList[i]) /\ \A j \in 1..(i - 1) : ~Registered(StaticList[j]))
        => (Returned /\ call.provider = registry[StaticList[i]])

\* the first name of the list is not registered and a later one is returned
C4_Witness ==
  /\ C4_Case /\ Returned
  /\ ~Registered(StaticList[1])
  /\ call.provider.name \in Range(StaticList)

(***************************************************************************)
(* C5. Router.route raises ValueError exactly when no registered preferred *)
(* provider was supplied and no name of the intent's priority list, after  *)
(* strategy reordering and locality filtering, is registered; otherwise it *)
(* returns a provider that is in the registry.                             *)
(***************************************************************************)
C5_RaisesIffNoCandidate ==
  Routed =>
    /\ Raised <=>
         /\ ~PreferredHit
         /\ ~\E n \in Range(StaticList) :
               Registered(n) /\ (call.require_local => RegisteredLocal(n))
    /\ Raised \/ Returned
    /\ Returned =>
         /\ Registered(call.provider.name)
         /\ registry[call.provider.name] = call.provider

\* the example: local-only LANGUAGE routing with only llm claude and gpt
\* among the registered names of the list
C5_Witness ==
  /\ Raised /\ call.require_local /\ call.intent = LANGUAGE
  /\ RegisteredOfType("claude", "llm") /\ RegisteredOfType("gpt", "llm")

(***************************************************************************)
(* C6. A query that matches at least one pattern of intent X and no        *)
(* pattern of any other intent is classified X; and in every case the      *)
(* intent returned has the maximal match count, the number of its patterns *)
(* found in the lower-cased query.                                         *)
(***************************************************************************)
PatternsOf(X) ==
  IF \E e \in 1..Len(INTENT_PATTERNS) : INTENT_PATTERNS[e].intent = X
  THEN INTENT_PATTERNS[CHOOSE e \in 1..Len(INTENT_PATTERNS) :
                         INTENT_PATTERNS[e].intent = X].patterns
  ELSE <<>>

MatchCount(X, q) ==
  Cardinality({n \in 1..Len(PatternsOf(X)) : re_search(PatternsOf(X)[n], lower(q))})

MatchCounts(q) == [X \in Range(IntentType) |-> MatchCount(X, q)]

\* the match counts of every query of the model, computed once
QueryMatchCounts == [q \in Queries |-> MatchCounts(q)]

C6_DetectsIntentOfMaxCount ==
  detected # Pending =>
    LET c == QueryMatchCounts[query] IN
      /\ \A X \in Range(IntentType) :
           (c[X] >= 1 /\ \A Y \in Range(IntentType) \ {X} : c[Y] = 0) => detected = X
      /\ detected \in Range(IntentType)
      /\ \A Y \in Range(IntentType) : c[Y] <= c[detected]

\* a query in upper case that only LANGUAGE patterns match, twice
C6_Witness ==
  /\ detected = LANGUAGE
  /\ QueryMatchCounts[query][LANGUAGE] = 2
  /\ \A Y \in Range(IntentType) \ {LANGUAGE} : QueryMatchCounts[query][Y] = 0
  /\ lower(query) # query

(***************************************************************************)
(* C7. detect_intent returns exactly one IntentType for every query, and   *)
(* UNKNOWN when no pattern of any intent matches; Router.route then        *)
(* selects from the UNKNOWN priority list [claude, gpt].                   *)
(***************************************************************************)
NoMatchRouteQueries ==
  {q \in RouteQueries : \A X \in Range(IntentType) : MatchCount(X, q) = 0}

EnumerationOrder == <<PHYSICS, LANGUAGE, DATA, INFERENCE>>

Tied(q) ==
  LET c == QueryMatchCounts[q] IN
    {X \in Range(EnumerationOrder) :
       c[X] > 0 /\ \A Y \in Range(IntentType) : c[Y] <= c[X]}

C8_TieGoesToFirstOfEnumeration ==
  (detected # Pending /\ Cardinality(Tied(query)) >= 2) =>
    /\ detected \in Tied(query)
    /\ \A Y \in Tied(query) :
         IndexIn(EnumerationOrder, detected) <= IndexIn(EnumerationOrder, Y)

\* LANGUAGE ties with an intent the pattern table lists before it, and wins
C8_Witness ==
  /\ detected = LANGUAGE
  /\ Cardinality(Tied(query)) >= 2
  /\ Tied(query) \cap {DATA, INFERENCE} # {}

(***************************************************************************)
(* C9. Under FASTEST the candidate list of select_provider is the static   *)
(* priority list with every registered edge-type provider ahead of every   *)
(* other name, the order within the edge names and within the other names  *)
(* being that of the static list.                                          *)
(***************************************************************************)
\* R is L rearranged so that the names satisfying first(_) come first, each
\* group in the order of L
StablePartition(R, L, first(_)) ==
  /\ Len(R) = Len(L)
  /\ Range(R) = Range(L)
  /\ \A i, j \in 1..Len(R) :
       i < j => /\ first(R[j]) => first(R[i])
                /\ (first(R[i]) <=> first(R[j])) => IndexIn(L, R[i]) < IndexIn(L, R[j])

IsEdge(n) == RegisteredOfType(n, "edge")
IsCompute(n) == RegisteredOfType(n, "compute")

C9_FastestEdgeFirstStable ==
  (Routed /\ call.walked /\ Effective(call.strategy) = FASTEST) =>
    StablePartition(call.ranked, StaticList, IsEdge)

\* an edge provider moved ahead of two others, which keep their order
C9_Witness ==
  /\ Routed /\ call.walked /\ Effective(call.strategy) = FASTEST
  /\ Len(call.ranked) = 3
  /\ call.ranked # StaticList
  /\ IsEdge(call.ranked[1]) /\ ~IsEdge(call.ranked[2]) /\ ~IsEdge(call.ranked[3])

(***************************************************************************)
(* C10 as claimed. Under CHEAPEST the candidate list has every registered  *)
(* compute-type provider ahead of every other name, each group in static   *)
(* order, so the provider selected is of type compute whenever a           *)
(* registered compute-type provider is in the intent's list.               *)
(***************************************************************************)
C10_CheapestSelectsCompute ==
  (Routed /\ Effective(call.strategy) = CHEAPEST) =>
    /\ call.walked => StablePartition(call.ranked, StaticList, IsCompute)
    /\ (\E n \in Range(StaticList) : IsCompute(n)) =>
         (Returned /\ call.provider.provider_type = "compute")

(***************************************************************************)
(* C10 amended. Under CHEAPEST the candidate list has every registered     *)
(* compute-type provider ahead of every other name, each group in static   *)
(* order, so, unless a registered preferred provider is supplied, the      *)
(* provider selected is of type compute whenever a registered compute-type *)
(* provider is in the intent's list.                                       *)
(***************************************************************************)
C10_CheapestComputeFirstStable ==
  (Routed /\ Effective(call.strategy) = CHEAPEST) =>
    /\ call.walked => StablePartition(call.ranked, StaticList, IsCompute)
    /\ (~PreferredHit /\ \E n \in Range(StaticList) : IsCompute(n)) =>
         (Returned /\ call.provider.provider_type = "compute")

\* a compute provider selected over a registered name the static list puts first
C10_Witness ==
  /\ Returned /\ ~PreferredHit /\ Effective(call.strategy) = CHEAPEST
  /\ call.provider.provider_type = "compute"
  /\ Registered(StaticList[1])
  /\ call.provider.name # StaticList[1]

(***************************************************************************)
(* BaseProvider.execute_with_metrics.  The coroutine suspends only at its  *)
(* await on execute; what runs after execute has returned or raised runs   *)
(* without suspension.  The latency a call measures is represented by the  *)
(* serial number of the measurement, so that every sample is told apart.   *)
(***************************************************************************)
MaxSamples == 100
MaxMeasured == 102

Errors == {"ConnectionError", "ValueError"}

\* if len(samples) > 100: samples.pop() -- evicts the newest sample
record_latency_pop_newest(samples, latency_ms) ==
  LET appended == Append(samples, latency_ms)
  IN  IF Len(appended) > MaxSamples
        THEN SubSeq(appended, 1, Len(appended) - 1)
        ELSE appended

\* the append without the eviction
record_latency_unbounded(samples, latency_ms) == Append(samples, latency_ms)

\* samples.append(latency_ms); if len(samples) > 100: samples.pop(0)
record_latency(samples, latency_ms) ==
  LET appended == Append(samples, latency_ms)
  IN  IF Len(appended) > MaxSamples THEN Tail(appended) ELSE appended

\* the sample recorded in a finally clause, whether or not execute raised
after_execute_records_on_error(samples, raised, latency_ms) ==
  [samples |-> record_latency(samples, latency_ms), raised |-> raised]

\* execute_with_metrics from the point where its await on execute ends:
\* an exception of execute leaves the coroutine at once, a result is timed
\* and its latency recorded
after_execute(samples, raised, latency_ms) ==
  IF raised # None
    THEN [samples |-> samples, raised |-> raised]
    ELSE [samples |-> record_latency(samples, latency_ms), raised |-> None]

\* the provider whose execute_with_metrics the tasks call
MeteredProvider == "claude"

InFlight(t) == exec[t].pc = "awaiting"

InitMetrics ==
  /\ registry = register(register(register(register(register(<<>>,
                  ClaudeProvider), OpenAIProvider), PhysicsProvider),
                  SalesforceProvider), HailoProvider)
  /\ call = NoCall
  /\ query = <<>>
  /\ detected = Pending
  /\ InitProviders
  /\ InitCalls

\* execute_with_metrics up to its await: the clock is read, execute called
ExecStart(t) ==
  /\ exec[t] = Idle
  /\ measured + Cardinality({u \in Tasks : InFlight(u)}) < MaxMeasured
  /\ exec' = [u \in Tasks |->
                IF u = t
                  THEN [pc |-> "awaiting", provider |-> MeteredProvider,
                        overlapped |-> \E v \in Tasks : InFlight(v)]
                  ELSE IF InFlight(u)
                         THEN [exec[u] EXCEPT !.overlapped = TRUE]
                         ELSE exec[u]]
  /\ UNCHANGED <<registered, auditVars, registry, call, query, detected, providerVars, hc, task,
                 audit_log>>

\* execute returns: the latency is measured, recorded and returned
ExecReturn(t) ==
  /\ InFlight(t)
  /\ LET p == exec[t].provider
         after == after_execute(latency_samples[p], None, measured + 1)
     IN  /\ latency_samples' = [latency_samples EXCEPT ![p] = after.samples]
         /\ exec' = [exec EXCEPT ![t] =
                       [pc |-> "returned", provider |-> p,
                        overlapped |-> exec[t].overlapped,
                        thrown |-> None, raised |-> after.raised]]
  /\ measured' = measured + 1
  /\ UNCHANGED <<registered, auditVars, registry, call, query, detected, status, hc, task,
                 audit_log>>

\* execute raises e
ExecRaise(t, e) ==
  /\ InFlight(t)
  /\ LET p == exec[t].provider
         after == after_execute(latency_samples[p], e, measured + 1)
     IN  /\ latency_samples' = [latency_samples EXCEPT ![p] = after.samples]
         /\ exec' = [exec EXCEPT ![t] =
                       [pc |-> "raised", provider |-> p,
                        overlapped |-> exec[t].overlapped,
                        thrown |-> e, raised |-> after.raised]]
  /\ UNCHANGED <<registered, auditVars, registry, call, query, detected, status, measured, hc, task,
                 audit_log>>

\* the caller has taken the result or the exception
ExecDone(t) ==
  /\ exec[t].pc \in {"returned", "raised"}
  /\ exec' = [exec EXCEPT ![t] = Idle]
  /\ UNCHANGED <<registered, auditVars, registry, call, query, detected, providerVars, hc, task,
                 audit_log>>

NextMetrics ==
  \/ \E t \in Tasks : ExecStart(t)
  \/ \E t \in Tasks : ExecReturn(t)
  \/ \E t \in Tasks, e \in Errors : ExecRaise(t, e)
  \/ \E t \in Tasks : ExecDone(t)

SpecMetrics == InitMetrics /\ [][NextMetrics]_vars

\* the latencies measured so far, in the order the calls completed
History == [i \in 1..measured |-> i]

Min(a, b) == IF a < b THEN a ELSE b

LastN(s, n) == SubSeq(s, Len(s) - n + 1, Len(s))

(***************************************************************************)
(* C12. After N successful execute_with_metrics calls on one provider its  *)
(* latency window holds exactly the latencies of the most recent           *)
(* min(N, 100) of them, in completion order: never more than 100 samples,  *)
(* the oldest evicted first.                                               *)
(***************************************************************************)
C12_WindowIsLastHundred ==
  /\ Len(latency_samples[MeteredProvider]) <= MaxSamples
  /\ latency_samples[MeteredProvider] =
       LastN(History, Min(measured, MaxSamples))

\* the 102nd call has completed: two samples have been evicted
C12_Witness ==
  /\ measured > MaxSamples + 1
  /\ Len(latency_samples[MeteredProvider]) = MaxSamples
  /\ latency_samples[MeteredProvider][1] = measured - MaxSamples + 1

(***************************************************************************)
(* C13. When execute raises, execute_with_metrics raises the same error to *)
(* its caller and the provider's latency window is left as it was: no      *)
(* sample is recorded for the failed call.                                 *)
(***************************************************************************)
C13_ErrorPropagatesNoSample ==
  [][\A t \in Tasks :
       (InFlight(t) /\ exec'[t].pc = "raised") =>
         /\ exec'[t].raised = exec'[t].thrown
         /\ exec'[t].raised \in Errors
         /\ latency_samples' = latency_samples]_vars

\* a call has failed on a provider whose window is full
C13_Witness ==
  /\ \E t \in Tasks : exec[t].pc = "raised" /\ exec[t].raised \in Errors
  /\ Len(latency_samples[MeteredProvider]) = MaxSamples

(***************************************************************************)
(* C14. With several execute_with_metrics calls in flight on one provider, *)
(* interleaved at their await on execute, every state the tasks can        *)
(* observe has a window of at most 100 samples in which no latency occurs  *)
(* twice and none of the latest min(N, 100) measured latencies is missing. *)
(***************************************************************************)
C14_InterleavedAppendsAtomic ==
  LET samples == latency_samples[MeteredProvider]
  IN  /\ Len(samples) <= MaxSamples
      /\ NoDuplicates(samples)
      /\ \A k \in 1..measured :
           k > measured - MaxSamples => \E i \in 1..Len(samples) : samples[i] = k

\* two calls overlapped, both have completed, and the window has evicted
C14_Witness ==
  /\ \A t \in Tasks : exec[t].pc = "returned" /\ exec[t].overlapped
  /\ measured > MaxSamples

(***************************************************************************)
(* ProviderRegistry.health_check_all.  The loop visits the providers in    *)
(* the order they were registered and suspends at each await on            *)
(* health_check; nothing registers a provider after startup.               *)
(***************************************************************************)
RegistrationOrder == <<"claude", "gpt", "physics", "salesforce", "hailo">>

\* self._providers.items(): names in insertion order
items(providers) == SelectSeq(RegistrationOrder, LAMBDA n : n \in DOMAIN providers)

RECURSIVE sum(_)
sum(samples) == IF samples = <<>> THEN 0 ELSE Head(samples) + sum(Tail(samples))

\* BaseProvider.get_info, of the provider registered under name
get_info(name, statuses, samples) ==
  [name |-> name,
   type |-> registry[name].provider_type,
   status |-> statuses[name],
   avg_latency_ms |-> IF samples[name] # <<>>
                        THEN sum(samples[name]) \div Len(samples[name])
                        ELSE None]

\* what health_check can do: return a truth value or raise
HealthErrors == {"ConnectionError"}
HealthOutcomes ==
  {[raised |-> None, healthy |-> b] : b \in BOOLEAN} \cup
  {[raised |-> e, healthy |-> FALSE] : e \in HealthErrors}

\* the loop body without its except clause: the error leaves the loop
health_check_one_propagates(name, outcome) ==
  IF outcome.raised # None
    THEN [status |-> status, latency_samples |-> latency_samples,
          registry |-> registry, raised |-> outcome.raised]
    ELSE [status |-> [status EXCEPT ![name] =
                        IF outcome.healthy THEN ONLINE ELSE OFFLINE],
          latency_samples |-> latency_samples,
          registry |-> registry, raised |-> None]

\* a loop body that also clears the samples of a provider found unhealthy
health_check_one_clears_samples(name, outcome) ==
  LET healthy == outcome.raised = None /\ outcome.healthy
  IN  [status |-> [status EXCEPT ![name] = IF healthy THEN ONLINE ELSE OFFLINE],
       latency_samples |-> IF healthy THEN latency_samples
                           ELSE [latency_samples EXCEPT ![name] = <<>>],
       registry |-> registry, raised |-> None]

\* the try/except of one iteration, given what the awaited health_check did
health_check_one(name, outcome) ==
  [status |-> [status EXCEPT ![name] =
                 IF outcome.raised # None THEN OFFLINE
                 ELSE IF outcome.healthy THEN ONLINE ELSE OFFLINE],
   latency_samples |-> latency_samples,
   registry |-> registry,
   raised |-> None]

NoResults == <<>>

InitHealth ==
  /\ registry = register(register(register(register(register(<<>>,
                  ClaudeProvider), OpenAIProvider), PhysicsProvider),
                  SalesforceProvider), HailoProvider)
  /\ call = NoCall
  /\ query = <<>>
  /\ detected = Pending
  /\ status = [n \in ProviderNames |-> STATUS_UNKNOWN]
  \* the provider has served no request yet, or one
  /\ measured \in {0, 1}
  /\ latency_samples = [n \in ProviderNames |->
                          IF n = MeteredProvider /\ measured = 1
                            THEN <<1>> ELSE <<>>]
  /\ InitCalls

\* results = {}; the loop reaches its first await, or returns at once
HealthStart ==
  /\ hc = Idle
  /\ hc' = IF items(registry) = <<>>
             THEN [pc |-> "returned", todo |-> <<>>, outcomes |-> NoResults,
                   results |-> NoResults, raised |-> None]
             ELSE [pc |-> "awaiting", todo |-> items(registry),
                   outcomes |-> NoResults, results |-> NoResults,
                   raised |-> None]
  /\ UNCHANGED <<registered, auditVars, registry, call, query, detected, providerVars, exec, task,
                 audit_log>>

\* the awaited health_check ends: status set, get_info stored, next provider
HealthChecked(outcome) ==
  /\ hc.pc = "awaiting"
  /\ LET name == Head(hc.todo)
         after == health_check_one(name, outcome)
         info == get_info(name, after.status, after.latency_samples)
     IN  /\ status' = after.status
         /\ latency_samples' = after.latency_samples
         /\ registry' = after.registry
         /\ hc' = IF after.raised # None
                    THEN [pc |-> "raised", todo |-> Tail(hc.todo),
                          outcomes |-> hc.outcomes, results |-> hc.results,
                          raised |-> after.raised]
                    ELSE [pc |-> IF Tail(hc.todo) = <<>> THEN "returned"
                                 ELSE "awaiting",
                          todo |-> Tail(hc.todo),
                          outcomes |-> (name :> outcome) @@ hc.outcomes,
                          results |-> (name :> info) @@ hc.results,
                          raised |-> None]
  /\ UNCHANGED <<registered, auditVars, call, query, detected, measured, exec, task, audit_log>>

\* the caller (/health) has taken the mapping or the exception
HealthDone ==
  /\ hc.pc \in {"returned", "raised"}
  /\ hc' = Idle
  /\ UNCHANGED <<registered, auditVars, registry, call, query, detected, providerVars, exec, task,
                 audit_log>>

HealthRouteQueries == {<<"e","n","e","r","g","y">>, <<"E","x","p","l","a","i","n">>}

NextHealth ==
  \/ HealthStart
  \/ \E outcome \in HealthOutcomes : HealthChecked(outcome)
  \/ HealthDone
  \/ \E q \in HealthRouteQueries, strategy \in {None, FASTEST},
        preferred_provider \in {None, "gpt"}, require_local \in BOOLEAN :
       Route(q, strategy, preferred_provider, require_local)
  \/ Discard

SpecHealth == InitHealth /\ [][NextHealth]_vars

HealthReturned == hc # Idle /\ hc.pc = "returned"

\* the status the outcome of a provider's health_check calls for
StatusFor(outcome) ==
  IF outcome.raised = None /\ outcome.healthy THEN ONLINE ELSE OFFLINE

(***************************************************************************)
(* C11. A Router.route call repeated with the same arguments, with no      *)
(* register call since the first one, gives the same provider, intent and  *)
(* alternatives, or the same failure, whatever health checks have run in   *)
(* between.                                                                *)
(***************************************************************************)
C11_RouteRepeatable ==
  Routed =>
    SameOutcome(call, route(call.query, call.strategy,
                            call.preferred_provider, call.require_local))

\* the provider the first call returned has since been found OFFLINE
C11_Witness ==
  /\ Returned
  /\ status[call.provider.name] = OFFLINE
  /\ HealthReturned

(***************************************************************************)
(* C15. health_check_all never raises what a health_check raised: when it  *)
(* returns, every registered provider has been checked, one whose check    *)
(* raised or returned false is OFFLINE, one whose check returned true is   *)
(* ONLINE, and the mapping has one entry per registered name.              *)
(***************************************************************************)
C15_HealthCheckAllAbsorbsFailures ==
  /\ hc # Idle => hc.pc # "raised"
  /\ HealthReturned =>
       /\ DOMAIN hc.results = DOMAIN registry
       /\ DOMAIN hc.outcomes = DOMAIN registry
       /\ \A n \in DOMAIN registry :
            /\ status[n] = StatusFor(hc.outcomes[n])
            /\ hc.results[n].name = n
            /\ hc.results[n].status = status[n]

\* the first provider's check raised, a later one returned false, a later
\* one true
C15_Witness ==
  /\ HealthReturned
  /\ hc.outcomes["claude"].raised \in HealthErrors
  /\ hc.outcomes["gpt"] = [raised |-> None, healthy |-> FALSE]
  /\ hc.outcomes["hailo"] = [raised |-> None, healthy |-> TRUE]

(***************************************************************************)
(* C16. No step of health_check_all changes which names are registered,    *)
(* which provider a name is registered to, or any provider's latency       *)
(* samples.                                                                *)
(***************************************************************************)
C16_HealthCheckAllChangesStatusOnly ==
  [][hc' # hc => /\ registry' = registry
                 /\ latency_samples' = latency_samples]_vars

\* a provider with a recorded sample has been found OFFLINE
C16_Witness ==
  /\ HealthReturned
  /\ latency_samples[MeteredProvider] # <<>>
  /\ status[MeteredProvider] = OFFLINE
  /\ \E n \in ProviderNames : status[n] = ONLINE

(***************************************************************************)
(* main.py: route_request, the handler of POST /route (and, through it, of *)
(* POST /chat).  Each task serves one request.  The handler suspends at    *)
(* its await on execute_with_metrics and at its await on audit_logger.log; *)
(* audit_log records the log calls in the order they are made.             *)
(***************************************************************************)
RequestQueries == {<<"e","n","e","r","g","y">>, <<"E","x","p","l","a","i","n">>}

\* RouteRequest: query, preferred_provider, require_local
Requests ==
  [query : RequestQueries, preferred_provider : {None, "gpt"},
   require_local : BOOLEAN]

\* str(e): of the ValueError route raises, of an error execute raises
no_provider_message(intent) == <<"No provider available for intent: ", intent>>
str(e) == <<e>>

\* AuditEntry(..., success=True, ...) of the try block
success_entry(audit_id, request, decision) ==
  [id |-> audit_id,
   request_type |-> "route",
   request_query |-> request.query,
   intent_detected |-> decision.intent,
   provider_selected |-> decision.provider.name,
   provider_alternatives |-> decision.alternatives,
   success |-> TRUE,
   error_message |-> None]

\* AuditEntry(..., success=False, ...) of the except clause
failure_entry(audit_id, request, message) ==
  [id |-> audit_id,
   request_type |-> "route",
   request_query |-> request.query,
   intent_detected |-> "unknown",
   provider_selected |-> "none",
   provider_alternatives |-> <<>>,
   success |-> FALSE,
   error_message |-> message]

\* a logger that records successes only
log_success_only(entries, entry) ==
  IF entry.success THEN Append(entries, entry) ELSE entries

\* AuditLogger.log(entry), as a call made
log(entries, entry) == Append(entries, entry)

\* an except clause that moves on to the next alternative not yet tried
try_next_alternative(alternatives, invoked) ==
  IF \E i \in 1..Len(alternatives) : alternatives[i] \notin Range(invoked)
    THEN alternatives[CHOOSE i \in 1..Len(alternatives) :
                        /\ alternatives[i] \notin Range(invoked)
                        /\ \A j \in 1..(i - 1) : alternatives[j] \in Range(invoked)]
    ELSE None

\* the provider route_request turns to after the chosen one failed: none,
\* the except clause logs and raises
after_provider_error(alternatives, invoked) == None

\* RouteResponse(success=True, ...), answered with status 200
RouteResponse(audit_id, decision) ==
  [status_code |-> 200, class |-> "RouteResponse",
   provider_used |-> decision.provider.name, audit_id |-> audit_id]

\* HTTPException(status_code=500, detail=str(e))
HTTPException(message) ==
  [status_code |-> 500, class |-> "HTTPException", detail |-> message]

InitRequests ==
  /\ registry = register(register(register(register(register(<<>>,
                  ClaudeProvider), OpenAIProvider), PhysicsProvider),
                  SalesforceProvider), HailoProvider)
  /\ call = NoCall
  /\ query = <<>>
  /\ detected = Pending
  /\ InitProviders
  /\ InitCalls

\* route_request up to its first await: the strategy is chosen, the query
\* routed, and either execute is called on the chosen provider or the
\* ValueError of route is logged
Receive(t, request) ==
  /\ task[t] = Idle
  /\ LET strategy == IF request.require_local THEN FASTEST ELSE AUTO
         decision == route(request.query, strategy,
                           request.preferred_provider, request.require_local)
         message == no_provider_message(decision.intent)
     IN  IF decision.raised # None
           THEN /\ audit_log' = log(audit_log, failure_entry(t, request, message))
                /\ task' = [task EXCEPT ![t] =
                              [pc |-> "logged", request |-> request,
                               decision |-> decision, invoked |-> <<>>,
                               provider |-> None, error |-> message]]
           ELSE /\ audit_log' = audit_log
                /\ task' = [task EXCEPT ![t] =
                              [pc |-> "executing", request |-> request,
                               decision |-> decision,
                               invoked |-> <<decision.provider.name>>,
                               provider |-> decision.provider.name,
                               error |-> None]]
  /\ UNCHANGED <<registered, auditVars, registry, call, query, detected, providerVars, exec, hc>>

\* execute returns: the latency is recorded and the success entry logged
RequestReturn(t) ==
  /\ task[t] # Idle /\ task[t].pc = "executing"
  /\ LET p == task[t].provider
         after == after_execute(latency_samples[p], None, measured + 1)
     IN  /\ latency_samples' = [latency_samples EXCEPT ![p] = after.samples]
         /\ audit_log' = log(audit_log, success_entry(t, task[t].request,
                                                      task[t].decision))
         /\ task' = [task EXCEPT ![t].pc = "logged"]
  /\ measured' = measured + 1
  /\ UNCHANGED <<registered, auditVars, registry, call, query, detected, status, exec, hc>>

\* execute raises e: the except clause logs the failure entry
RequestRaise(t, e) ==
  /\ task[t] # Idle /\ task[t].pc = "executing"
  /\ LET p == task[t].provider
         after == after_execute(latency_samples[p], e, measured + 1)
         next == after_provider_error(task[t].decision.alternatives,
                                      task[t].invoked)
     IN  /\ latency_samples' = [latency_samples EXCEPT ![p] = after.samples]
         /\ IF next # None
              THEN /\ audit_log' = audit_log
                   /\ task' = [task EXCEPT ![t].provider = next,
                                           ![t].invoked = Append(@, next)]
              ELSE /\ audit_log' = log(audit_log,
                                       failure_entry(t, task[t].request,
                                                     str(after.raised)))
                   /\ task' = [task EXCEPT ![t].pc = "logged",
                                           ![t].error = str(after.raised)]
  /\ UNCHANGED <<registered, auditVars, registry, call, query, detected, status, measured, exec, hc>>

\* the log call is over: the RouteResponse is returned, or the
\* HTTPException raised
Respond(t) ==
  /\ task[t] # Idle /\ task[t].pc = "logged"
  /\ task' = [task EXCEPT ![t] =
                [pc |-> "responded", request |-> task[t].request,
                 decision |-> task[t].decision, invoked |-> task[t].invoked,
                 provider |-> task[t].provider, error |-> task[t].error,
                 response |-> IF task[t].error = None
                                THEN RouteResponse(t, task[t].decision)
                                ELSE HTTPException(task[t].error)]]
  /\ UNCHANGED <<registered, auditVars, registry, call, query, detected, providerVars, exec, hc,
                 audit_log>>

NextRequests ==
  \/ \E t \in Tasks, request \in Requests : Receive(t, request)
  \/ \E t \in Tasks : RequestReturn(t)
  \/ \E t \in Tasks, e \in Errors : RequestRaise(t, e)
  \/ \E t \in Tasks : Respond(t)

SpecRequests == InitRequests /\ [][NextRequests]_vars

Received(t) == task[t] # Idle
Completed(t) == Received(t) /\ task[t].pc = "responded"
Decided(t) == Received(t) /\ task[t].decision.raised = None
RoutingFailed(t) == Received(t) /\ task[t].decision.raised # None
ExecutionFailed(t) ==
  Decided(t) /\ task[t].pc \in {"logged", "responded"} /\ task[t].error # None

\* the log calls made for the request of task t
EntriesOf(t) == SelectSeq(audit_log, LAMBDA entry : entry.id = t)

\* what an audit record says about the routing and its outcome
Shape(entry) ==
  [intent_detected |-> entry.intent_detected,
   provider_selected |-> entry.provider_selected,
   provider_alternatives |-> entry.provider_alternatives,
   success |-> entry.success]

(***************************************************************************)
(* C17. A /route request calls execute at most once, on the provider       *)
(* Router.route chose; after a failed execution no alternative is tried    *)
(* and nothing is retried before the failure is logged and reported.       *)
(***************************************************************************)
C17_OneInvocationPerRequest ==
  \A t \in Tasks :
    Received(t) =>
      /\ Len(task[t].invoked) <= 1
      /\ RoutingFailed(t) => task[t].invoked = <<>>
      /\ Decided(t) => task[t].invoked = <<task[t].decision.provider.name>>

\* the chosen provider failed although route had named alternatives
C17_Witness ==
  \E t \in Tasks :
    /\ Completed(t) /\ ExecutionFailed(t)
    /\ task[t].decision.alternatives # <<>>
    /\ Len(task[t].invoked) = 1

(***************************************************************************)
(* C18. A request that failed in routing (no provider invoked) and a       *)
(* request whose chosen provider raised are never answered with the same   *)
(* error class and status together with audit records of the same shape.   *)
(***************************************************************************)
C18_RoutingFailureDistinctFromExecutionFailure ==
  \A t, u \in Tasks :
    (Completed(t) /\ RoutingFailed(t) /\ Completed(u) /\ ExecutionFailed(u)) =>
      ~ /\ task[t].response.class = task[u].response.class
        /\ task[t].response.status_code = task[u].response.status_code
        /\ Shape(EntriesOf(t)[1]) = Shape(EntriesOf(u)[1])

(***************************************************************************)
(* C19. A /route request that has completed has caused exactly one         *)
(* audit_logger.log call: a success entry when routing and execution       *)
(* succeeded, a failure entry otherwise; a request still executing has     *)
(* caused none.                                                            *)
(***************************************************************************)
C19_OneAuditEntryPerRequest ==
  \A t \in Tasks :
    /\ (~Received(t) \/ task[t].pc = "executing") => EntriesOf(t) = <<>>
    /\ Completed(t) =>
         /\ Len(EntriesOf(t)) = 1
         /\ EntriesOf(t)[1].success = (Decided(t) /\ ~ExecutionFailed(t))

\* one request completed with a success entry, the other with a failure one
C19_Witness ==
  \E t, u \in Tasks :
    /\ Completed(t) /\ Completed(u)
    /\ Len(audit_log) = 2
    /\ EntriesOf(t)[1].success
    /\ ~EntriesOf(u)[1].success

(***************************************************************************)
(* C20. Whenever Router.route returned a decision for a /route request,    *)
(* the audit record of the request carries the decision's intent, selected *)
(* provider name and alternatives, also when the execution then failed.    *)
(***************************************************************************)
C20_AuditCarriesDecision ==
  \A t \in Tasks :
    (Decided(t) /\ EntriesOf(t) # <<>>) =>
      /\ EntriesOf(t)[1].intent_detected = task[t].decision.intent
      /\ EntriesOf(t)[1].provider_selected = task[t].decision.provider.name
      /\ EntriesOf(t)[1].provider_alternatives = task[t].decision.alternatives

(***************************************************************************)
(* C21. The alternatives of a Router.route call that returned never name   *)
(* the returned provider, name registered providers only, name none twice  *)
(* and follow the order of the intent's priority list.  With exactly       *)
(* physics, claude and gpt registered, a PHYSICS query under AUTO without  *)
(* preference returns physics with alternatives [claude, gpt]; with        *)
(* exactly salesforce and claude, a DATA query returns salesforce with     *)
(* alternatives [claude].                                                  *)
(***************************************************************************)
ShippedOnly(names) ==
  /\ DOMAIN registry = names
  /\ \A n \in names : registry[n] \in ShippedProviders

ScenarioCall(intent) ==
  /\ Routed /\ call.intent = intent
  /\ ~PreferredHit /\ ~call.require_local
  /\ Effective(call.strategy) = AUTO

C21_AlternativesExcludeSelected ==
  /\ Returned =>
       /\ call.provider.name \notin Range(call.alternatives)
       /\ \A i \in 1..Len(call.alternatives) :
            /\ Registered(call.alternatives[i])
            /\ call.alternatives[i] \in Range(StaticList)
       /\ NoDuplicates(call.alternatives)
       /\ \A i, j \in 1..Len(call.alternatives) :
            i < j => IndexIn(StaticList, call.alternatives[i])
                       < IndexIn(StaticList, call.alternatives[j])
  /\ (ShippedOnly({"physics", "claude", "gpt"}) /\ ScenarioCall(PHYSICS)) =>
       /\ Returned
       /\ call.provider.name = "physics"
       /\ call.alternatives = <<"claude", "gpt">>
  /\ (ShippedOnly({"salesforce", "claude"}) /\ ScenarioCall(DATA)) =>
       /\ Returned
       /\ call.provider.name = "salesforce"
       /\ call.alternatives = <<"claude">>

\* the second scenario: salesforce returned, claude its only alternative
C21_Witness ==
  /\ ShippedOnly({"salesforce", "claude"})
  /\ ScenarioCall(DATA)
  /\ call.alternatives = <<"claude">>

(***************************************************************************)
(* ProviderRegistry on its own: register calls, each traced in registered, *)
(* and get calls whose result the caller holds.                            *)
(***************************************************************************)
MaxRegistered == 3

RegistryProviders ==
  [name : {"claude", "gpt", "physics"}, provider_type : {"llm", "compute"}]
RegistryNames == {"claude", "gpt", "physics", "hailo"}

InitRegistry ==
  /\ registry = <<>>
  /\ call = NoCall
  /\ query = <<>>
  /\ detected = Pending
  /\ InitProviders
  /\ InitCalls

\* ProviderRegistry.register(provider), of a new provider instance
RegistryRegister(provider) ==
  /\ call = NoCall
  /\ Len(registered) < MaxRegistered
  /\ registry' = register(registry, provider)
  /\ registered' = Append(registered, provider)
  /\ status' = [status EXCEPT ![provider.name] = STATUS_UNKNOWN]
  /\ latency_samples' = [latency_samples EXCEPT ![provider.name] = <<>>]
  /\ UNCHANGED <<auditVars, call, query, detected, measured, callVars>>

\* ProviderRegistry.get(name)
RegistryGet(name) ==
  /\ call = NoCall
  /\ call' = [op |-> "get", name |-> name, result |-> get(name)]
  /\ UNCHANGED <<registered, auditVars, registry, query, detected,
                 providerVars, callVars>>

NextRegistry ==
  \/ \E provider \in RegistryProviders : RegistryRegister(provider)
  \/ \E name \in RegistryNames : RegistryGet(name)
  \/ Discard

SpecRegistry == InitRegistry /\ [][NextRegistry]_vars

RegisteredAt(name) == {i \in 1..Len(registered) : registered[i].name = name}

\* the provider most recently passed to register under name, if any
LastRegistered(name) ==
  IF RegisteredAt(name) = {}
    THEN NoProvider
    ELSE registered[CHOOSE i \in RegisteredAt(name) :
                      \A j \in RegisteredAt(name) : j <= i]

(***************************************************************************)
(* C22. After any sequence of register calls the registry has one entry    *)
(* per registered name, and get(name) returns the provider most recently   *)
(* registered under name, or nothing if none was.                          *)
(***************************************************************************)
C22_GetReturnsLastRegistered ==
  /\ DOMAIN registry = {registered[i].name : i \in 1..Len(registered)}
  /\ \A n \in DOMAIN registry : registry[n].name = n
  /\ call.op = "get" => call.result = LastRegistered(call.name)

\* a name registered twice, with different providers, then looked up
C22_Witness ==
  /\ call.op = "get"
  /\ Cardinality(RegisteredAt(call.name)) > 1
  /\ \E i \in RegisteredAt(call.name) : registered[i] # call.result
  /\ call.result = LastRegistered(call.name)

(***************************************************************************)
(* audit.py: AuditLogger.  log and close take the asyncio lock, which      *)
(* serves its waiters first come first served; _flush runs with the lock   *)
(* held and suspends at the opening of the file and at every write.  An    *)
(* entry is represented by the serial number of its log call.              *)
(***************************************************************************)
buffer_size == 10
MaxLogged == 11
MaxFlushFailures == 1

\* a flush only when the buffer holds exactly buffer_size entries
should_flush_at_size(entries) == Len(entries) = buffer_size

\* if len(self._buffer) >= self._buffer_size
should_flush(entries) == Len(entries) >= buffer_size

InitAuditLogger ==
  /\ registry = <<>>
  /\ call = NoCall
  /\ query = <<>>
  /\ detected = Pending
  /\ InitProviders
  /\ InitCalls

Flushing(c) == logcall[c] # Idle /\ logcall[c].pc = "flushing"
Closed == logcall["lifespan"] # Idle /\ logcall["lifespan"].pc = "closed"

\* the state of a caller whose call has returned, given what it leaves
Returns(calling, entries, lines) ==
  IF calling.op = "close"
    THEN [pc |-> "closed", op |-> "close", before |-> calling.before,
          buffer |-> entries, file |-> lines]
    ELSE Idle

\* the body of `async with self._lock` of caller c, up to its first await
\* or to its end: log appends and flushes a full buffer, close flushes a
\* buffer that is not empty
Enter(c, calling, waiters) ==
  LET entries == IF calling.op = "log"
                   THEN Append(buffer, calling.entry) ELSE buffer
      flushes == IF calling.op = "log"
                   THEN should_flush(entries) ELSE entries # <<>>
  IN  /\ buffer' = entries
      /\ lock' = [holder |-> IF flushes THEN c ELSE None, waiters |-> waiters]
      /\ logcall' = [logcall EXCEPT ![c] =
                       IF flushes
                         THEN [pc |-> "flushing", op |-> calling.op,
                               before |-> calling.before, next |-> 0]
                         ELSE Returns(calling, entries, file)]

\* a call finds the lock free and enters, or joins the waiters
Call(c, calling) ==
  IF lock = Unlocked
    THEN Enter(c, calling, <<>>)
    ELSE /\ lock' = [lock EXCEPT !.waiters = Append(@, c)]
         /\ logcall' = [logcall EXCEPT ![c] = calling]
         /\ buffer' = buffer

\* AuditLogger.log(entry) is called
Log(c) ==
  /\ logcall[c] = Idle
  /\ Len(audit_log) < MaxLogged
  /\ LET entry == [id |-> Len(audit_log) + 1]
     IN  /\ audit_log' = Append(audit_log, entry)
         /\ Call(c, [pc |-> "waiting", op |-> "log", entry |-> entry,
                     before |-> Len(audit_log)])
  /\ UNCHANGED <<registered, registry, call, query, detected, providerVars,
                 exec, hc, task, file, flush_failures>>

\* AuditLogger.close() is called, by lifespan's shutdown half
Close ==
  /\ logcall["lifespan"] = Idle
  /\ Call("lifespan", [pc |-> "waiting", op |-> "close", entry |-> None,
                       before |-> Len(audit_log)])
  /\ UNCHANGED <<registered, registry, call, query, detected, providerVars,
                 exec, hc, task, audit_log, file, flush_failures>>

\* the lock has been released and its first waiter runs
Acquire(c) ==
  /\ lock.holder = None
  /\ lock.waiters # <<>> /\ Head(lock.waiters) = c
  /\ Enter(c, logcall[c], Tail(lock.waiters))
  /\ UNCHANGED <<registered, registry, call, query, detected, providerVars,
                 exec, hc, task, audit_log, file, flush_failures>>

\* _flush: aiofiles.open returns
FlushOpen(c) ==
  /\ Flushing(c) /\ logcall[c].next = 0
  /\ logcall' = [logcall EXCEPT ![c].next = 1]
  /\ UNCHANGED <<registered, registry, call, query, detected, providerVars,
                 exec, hc, task, audit_log, buffer, file, lock,
                 flush_failures>>

\* _flush: a write returns; after the last one the buffer is cleared and
\* the lock released
FlushWrite(c) ==
  /\ Flushing(c) /\ logcall[c].next \in 1..Len(buffer)
  /\ file' = Append(file, buffer[logcall[c].next])
  /\ IF logcall[c].next < Len(buffer)
       THEN /\ logcall' = [logcall EXCEPT ![c].next = @ + 1]
            /\ UNCHANGED <<buffer, lock>>
       ELSE /\ buffer' = <<>>
            /\ lock' = [lock EXCEPT !.holder = None]
            /\ logcall' = [logcall EXCEPT ![c] = Returns(logcall[c], <<>>, file')]
  /\ UNCHANGED <<registered, registry, call, query, detected, providerVars,
                 exec, hc, task, audit_log, flush_failures>>

\* _flush: aiofiles.open or a write raises; the except clause reports it
\* and the buffer stays as it is
FlushFail(c) ==
  /\ Flushing(c)
  /\ flush_failures < MaxFlushFailures
  /\ flush_failures' = flush_failures + 1
  /\ lock' = [lock EXCEPT !.holder = None]
  /\ logcall' = [logcall EXCEPT ![c] = Returns(logcall[c], buffer, file)]
  /\ UNCHANGED <<registered, registry, call, query, detected, providerVars,
                 exec, hc, task, audit_log, buffer, file>>

NextAuditLogger ==
  \/ \E c \in Tasks : Log(c)
  \/ Close
  \/ \E c \in Callers : Acquire(c)
  \/ \E c \in Callers : FlushOpen(c)
  \/ \E c \in Callers : FlushWrite(c)
  \/ \E c \in Callers : FlushFail(c)

SpecAuditLogger == InitAuditLogger /\ [][NextAuditLogger]_vars

\* the entry's log call still waits for the lock
WaitsForLock(entry) ==
  \E c \in Tasks :
    /\ logcall[c] # Idle /\ logcall[c].pc = "waiting"
    /\ logcall[c].op = "log"
    /\ logcall[c].entry = entry

Occurrences(lines, entry) ==
  Cardinality({i \in 1..Len(lines) : lines[i] = entry})

(***************************************************************************)
(* C25. When close has returned, the buffer it leaves is empty and every   *)
(* entry whose log call was made before close was called is in the file,   *)
(* also when a write failed during the flush.                              *)
(***************************************************************************)
C25_CloseFlushesEverything ==
  Closed =>
    /\ logcall["lifespan"].buffer = <<>>
    /\ \A k \in 1..logcall["lifespan"].before :
         Occurrences(logcall["lifespan"].file, audit_log[k]) > 0

(***************************************************************************)
(* C29. Under every interleaving of log and close calls and every pattern  *)
(* of write failures, an entry whose log call has taken the lock is in the *)
(* buffer or in the file, no entry is in the file twice, and the file      *)
(* lists the entries in the order their log calls took the lock.           *)
(***************************************************************************)
C29_EveryEntryOnceInOrder ==
  /\ \A k \in 1..Len(audit_log) :
       /\ ~WaitsForLock(audit_log[k]) =>
            Occurrences(buffer, audit_log[k]) + Occurrences(file, audit_log[k]) > 0
       /\ Occurrences(file, audit_log[k]) <= 1
  /\ \A i, j \in 1..Len(file) : i < j => file[i].id < file[j].id

(***************************************************************************)
(* C30. While no flush has failed, the buffer holds fewer than 10 entries  *)
(* whenever the lock is free; a failed flush leaves the buffer as it was;  *)
(* and every log call that leaves 10 entries or more in the buffer, the    *)
(* first one after a failed flush included, attempts a flush.              *)
(***************************************************************************)
C30_FlushAtTenRetriedAfterFailure ==
  [][/\ (lock'.holder = None /\ flush_failures' = 0) =>
          Len(buffer') < buffer_size
     /\ flush_failures' # flush_failures => buffer' = buffer
     /\ (Len(buffer') = Len(buffer) + 1 /\ Len(buffer') >= buffer_size) =>
          \E c \in Tasks : logcall'[c] # Idle /\ logcall'[c].pc = "flushing"
    ]_vars

\* a flush of 10 entries has failed and the 11th log call flushes again
C30_Witness ==
  /\ flush_failures > 0
  /\ Len(buffer) > buffer_size
  /\ \E c \in Tasks : Flushing(c)

(***************************************************************************)
(* main.py: the endpoints that run an operation on a provider.  /route is  *)
(* route_request; /chat builds a RouteRequest and calls route_request;     *)
(* /physics/{operation} and /data/{operation} look their provider up and   *)
(* call its execute directly.                                              *)
(***************************************************************************)
\* the provider a direct endpoint looks up
endpoint_provider == [physics |-> "physics", data |-> "salesforce"]
DirectEndpoints == DOMAIN endpoint_provider

\* chat: RouteRequest(query=request.message, preferred_provider=None)
Chat(t, message) ==
  Receive(t, [query |-> message, preferred_provider |-> None,
              require_local |-> FALSE])

\* physics_operation / data_operation up to the await on execute, or to
\* the 503 for a provider that is not registered
Operate(t, endpoint) ==
  /\ task[t] = Idle
  /\ LET provider == get(endpoint_provider[endpoint])
     IN  task' = [task EXCEPT ![t] =
                    IF ~Truthy(provider)
                      THEN [pc |-> "responded", endpoint |-> endpoint,
                            invoked |-> <<>>,
                            response |-> [status_code |-> 503,
                                          class |-> "HTTPException"]]
                      ELSE [pc |-> "operating", endpoint |-> endpoint,
                            invoked |-> <<provider.name>>]]
  /\ UNCHANGED <<registered, auditVars, registry, call, query, detected,
                 providerVars, exec, hc, audit_log>>

\* execute returns: the endpoint returns its dict
OperateReturn(t) ==
  /\ task[t] # Idle /\ task[t].pc = "operating"
  /\ task' = [task EXCEPT ![t] =
                [pc |-> "responded", endpoint |-> task[t].endpoint,
                 invoked |-> task[t].invoked,
                 response |-> [status_code |-> 200, class |-> "dict"]]]
  /\ UNCHANGED <<registered, auditVars, registry, call, query, detected,
                 providerVars, exec, hc, audit_log>>

\* execute raises e: nothing catches it, the framework answers 500
OperateRaise(t, e) ==
  /\ task[t] # Idle /\ task[t].pc = "operating"
  /\ task' = [task EXCEPT ![t] =
                [pc |-> "responded", endpoint |-> task[t].endpoint,
                 invoked |-> task[t].invoked,
                 response |-> [status_code |-> 500, class |-> e]]]
  /\ UNCHANGED <<registered, auditVars, registry, call, query, detected,
                 providerVars, exec, hc, audit_log>>

NextEndpoints ==
  \/ \E t \in Tasks, request \in Requests : Receive(t, request)
  \/ \E t \in Tasks, message \in RequestQueries : Chat(t, message)
  \/ \E t \in Tasks, endpoint \in DirectEndpoints : Operate(t, endpoint)
  \/ \E t \in Tasks : RequestReturn(t)
  \/ \E t \in Tasks, e \in Errors : RequestRaise(t, e)
  \/ \E t \in Tasks : Respond(t)
  \/ \E t \in Tasks : OperateReturn(t)
  \/ \E t \in Tasks, e \in Errors : OperateRaise(t, e)

SpecEndpoints == InitRequests /\ [][NextEndpoints]_vars

(***************************************************************************)
(* C24. Every request handled by /route, /chat, /physics/{operation} or    *)
(* /data/{operation} has caused an audit_logger.log call by the time it    *)
(* is answered.                                                            *)
(***************************************************************************)
C24_EveryEndpointAudited ==
  \A t \in Tasks : Completed(t) => Len(EntriesOf(t)) >= 1

(***************************************************************************)
(* C27. With exactly the five startup providers registered, the strategy   *)
(* makes no difference: for the intent, preferred provider and             *)
(* require_local value of any call, select_provider returns under FASTEST, *)
(* CHEAPEST, BEST and AUTO the provider the call got.                      *)
(***************************************************************************)
C27_StrategyIrrelevantAtStartup ==
  (StartupRegistry /\ Routed) =>
    \A strategy \in RouteStrategy :
      select_provider(call.intent, strategy, call.preferred_provider,
                      call.require_local) = call.provider

\* a CHEAPEST call on a list that holds a compute provider, at startup
C27_Witness ==
  /\ StartupRegistry /\ Returned
  /\ call.strategy = CHEAPEST /\ ~PreferredHit
  /\ call.intent = PHYSICS
  /\ call.provider.provider_type = "compute"

(***************************************************************************)
(* C28. With the five startup providers registered, a route call with      *)
(* require_local = false never raises; with require_local = true and no    *)
(* registered preferred provider it returns physics for a PHYSICS query,   *)
(* hailo for an INFERENCE query, and raises for DATA, LANGUAGE and         *)
(* UNKNOWN queries.                                                        *)
(***************************************************************************)
C28_StartupLocalOutcomes ==
  (StartupRegistry /\ Routed) =>
    /\ ~call.require_local => Returned
    /\ (call.require_local /\ ~PreferredHit) =>
         /\ call.intent = PHYSICS =>
              (Returned /\ call.provider = PhysicsProvider)
         /\ call.intent = INFERENCE =>
              (Returned /\ call.provider = HailoProvider)
         /\ call.intent \in {DATA, LANGUAGE, UNKNOWN} => Raised

\* a local-only PHYSICS call answered by physics, at startup
C28_Witness ==
  /\ StartupRegistry /\ Returned
  /\ call.require_local /\ ~PreferredHit
  /\ call.intent = PHYSICS
  /\ call.provider = PhysicsProvider

(***************************************************************************)
(* The read operations: Router.route, detect_intent, select_provider,      *)
(* registry.get, registry.list_all, registry.get_by_capability and         *)
(* get_info, called while health checks change provider status and         *)
(* executions add latency samples.                                         *)
(***************************************************************************)
MaxSampled == 1

\* the capabilities class attribute of the shipped providers
capabilities ==
  [claude |-> {"chat", "analysis", "coding", "reasoning", "math", "writing"},
   gpt |-> {"chat", "analysis", "coding", "reasoning"},
   physics |-> {"physics", "math", "numerical", "scientific"},
   salesforce |-> {"crm", "data", "query", "customer"},
   hailo |-> {"inference", "vision", "fast", "local", "edge"}]

\* [p.get_info() for p in self._providers.values()]
list_all == [i \in 1..Len(items(registry)) |->
               get_info(items(registry)[i], status, latency_samples)]

\* [p for p in self._providers.values() if capability in p.capabilities]
get_by_capability(capability) ==
  SelectSeq(items(registry), LAMBDA n : capability \in capabilities[n])

\* a select_provider whose locality filter removes the names from the
\* priority list itself
after_read_filters_in_place(c) ==
  [registry |-> registry, status |-> status,
   latency_samples |-> latency_samples,
   INTENT_PROVIDER_MAP |->
     IF c.op = "route" /\ c.require_local /\ c.walked
       THEN [INTENT_PROVIDER_MAP EXCEPT ![c.intent] = filter_local(@, TRUE)]
       ELSE INTENT_PROVIDER_MAP]

\* the shared data after the read c: no read operation assigns to
\* _providers, _status or _latency_samples, and sorted() and the list
\* comprehensions build new lists from the priority table
after_read(c) ==
  [registry |-> registry, status |-> status,
   latency_samples |-> latency_samples,
   INTENT_PROVIDER_MAP |-> INTENT_PROVIDER_MAP]

\* the caller runs a read operation and holds what it returned
Read(c) ==
  /\ call = NoCall
  /\ call' = c
  /\ registry' = after_read(c).registry
  /\ status' = after_read(c).status
  /\ latency_samples' = after_read(c).latency_samples
  /\ UNCHANGED <<registered, auditVars, query, detected, measured, callVars>>

\* Router.route; seen_status is the status the returned provider had
ReadRoute(q, strategy, preferred_provider, require_local) ==
  LET decision == route(q, strategy, preferred_provider, require_local)
  IN  Read(("seen_status" :> IF decision.raised = None
                               THEN status[decision.provider.name]
                               ELSE None) @@ decision)

ReadDetectIntent(q) ==
  Read([op |-> "detect_intent", query |-> q, result |-> detected_intent[q]])

ReadSelectProvider(intent, strategy, preferred, require_local) ==
  Read([op |-> "select_provider", intent |-> intent, strategy |-> strategy,
        preferred |-> preferred, require_local |-> require_local,
        result |-> select_provider(intent, strategy, preferred, require_local)])

ReadGet(name) ==
  Read([op |-> "get", name |-> name, result |-> get(name)])

ReadListAll == Read([op |-> "list_all", result |-> list_all])

ReadGetByCapability(capability) ==
  Read([op |-> "get_by_capability", capability |-> capability,
        result |-> get_by_capability(capability)])

ReadGetInfo(name) ==
  /\ Registered(name)
  /\ Read([op |-> "get_info", name |-> name,
           result |-> get_info(name, status, latency_samples)])

\* a read runs without suspension: its caller drops the result before any
\* other task takes a step
NextReads ==
  \/ call = NoCall /\ HealthStart
  \/ \E healthy \in BOOLEAN :
       call = NoCall /\ HealthChecked([raised |-> None, healthy |-> healthy])
  \/ call = NoCall /\ HealthDone
  \/ call = NoCall /\ measured < MaxSampled /\ ExecStart("t1")
  \/ call = NoCall /\ ExecReturn("t1")
  \/ \E e \in HealthErrors : call = NoCall /\ ExecRaise("t1", e)
  \/ call = NoCall /\ ExecDone("t1")
  \/ \E q \in HealthRouteQueries, require_local \in BOOLEAN :
       ReadRoute(q, None, None, require_local)
  \/ ReadDetectIntent(<<"E", "x", "p", "l", "a", "i", "n">>)
  \/ \E require_local \in BOOLEAN :
       ReadSelectProvider(INFERENCE, FASTEST, None, require_local)
  \/ \E name \in {"claude", "mistral"} : ReadGet(name)
  \/ ReadListAll
  \/ ReadGetByCapability("math")
  \/ ReadGetInfo(MeteredProvider)
  \/ Discard

SpecReads == InitRequests /\ [][NextReads]_vars

IsRead(c) == c # NoCall

(***************************************************************************)
(* C23. A read operation (route, detect_intent, select_provider, get,      *)
(* list_all, get_by_capability, get_info) leaves the registry, every       *)
(* provider's status and latency samples and the priority table as they    *)
(* were, whether it returns or raises.                                     *)
(***************************************************************************)
C23_ReadsChangeNothing ==
  [][(call = NoCall /\ IsRead(call')) =>
       /\ registry' = registry
       /\ status' = status
       /\ latency_samples' = latency_samples
       /\ after_read(call').INTENT_PROVIDER_MAP = INTENT_PROVIDER_MAP]_vars

\* a route call has raised, with a provider OFFLINE and a sample recorded
C23_Witness ==
  /\ Raised
  /\ \E n \in ProviderNames : status[n] = OFFLINE
  /\ latency_samples[MeteredProvider] # <<>>

(***************************************************************************)
(* C26. Routing does not depend on health or metrics: a step that changes  *)
(* a provider's status or latency samples and leaves the registry alone    *)
(* changes, for no intent, strategy, preferred name and require_local      *)
(* value, the provider select_provider returns or the alternatives that    *)
(* go with it, which is all of a Router.route result that reads the        *)
(* registry; a provider found OFFLINE is still the one selected.           *)
(***************************************************************************)
C26_RoutingIgnoresHealthAndMetrics ==
  [][(registry' = registry
        /\ (status' # status \/ latency_samples' # latency_samples)) =>
       \A intent \in Range(IntentType), require_local \in BOOLEAN :
         /\ \A strategy \in RouteStrategy, preferred \in {None, "gpt"} :
              select_provider(intent, strategy, preferred, require_local)'
                = select_provider(intent, strategy, preferred, require_local)
         /\ \A selected \in {"claude", "physics"} :
              get_alternative_providers(selected, intent)'
                = get_alternative_providers(selected, intent)]_vars

\* route returned a provider that was OFFLINE when it was called
C26_Witness ==
  /\ Returned
  /\ call.seen_status = OFFLINE
  /\ status[call.provider.name] = OFFLINE
====
